---- MODULE Spec2Model ----
(***************************************************************************)
(* Sequential invoice numbering and invoice total consistency of the       *)
(* optician management application: the invoice_sequences counter and      *)
(* get_next_invoice_number(), the invoices / invoice_items tables with     *)
(* their triggers, the status lifecycle, and the createInvoiceAction       *)
(* server action of the frontend.                                          *)
(*                                                                         *)
(* Money is counted in cents (NUMERIC(10,2)), VAT rates in hundredths      *)
(* (NUMERIC(3,2)); an invoice number is the pair <<year, digit string>>.   *)
(***************************************************************************)
EXTENDS Integers, Sequences, FiniteSets, TLC

\* ------------------------------------------------------------------ bounds
MaxOrg ==
    2
NumYears ==
    2
MaxTx ==
    2
MaxInvoices ==
    2
MaxNumber ==
    2
MaxItems ==
    2

\* ------------------------------------------------------- program constants
FirstYear ==
    2025
PadLen ==
    6

Orgs ==
    1..MaxOrg
Years ==
    FirstYear..(FirstYear + NumYears - 1)
Txs ==
    1..MaxTx
Keys ==
    Orgs \X Years
None ==
    0
NoNumber ==
    << >>
\* the backend's answer: its kind and, for a refused, failed or rolled back
\* createInvoice, the request's organization, customer and status and the
\* invoice number the transaction held
Resp(kind) ==
    [kind |-> kind, org |-> None, customer |-> None, status |-> "none",
     number |-> NoNumber]
NoModal ==
    [org |-> None, number |-> NoNumber]

\* The products table as first filled: current_price in cents, vat_rate in
\* hundredths.
Products ==
    {1, 2}
InitialCatalog ==
    [p \in Products |->
        IF p = 1 THEN [current_price |-> 5000, vat_rate |-> 19, active |-> TRUE]
                 ELSE [current_price |-> 999, vat_rate |-> 7, active |-> TRUE]]

\* the product_snapshot of a product: the fields copied at the time of sale
Snapshot(product) ==
    [price |-> product.current_price, vat_rate |-> product.vat_rate]

\* an InvoiceItemCreate the form builds from a product of the catalog
ItemOf(catalog, p, quantity) ==
    [product_id |-> p, product_snapshot |-> Snapshot(catalog[p]), quantity |-> quantity,
     unit_price |-> catalog[p].current_price, discount_amount |-> 0,
     vat_rate |-> catalog[p].vat_rate]

\* The line items a request can carry: quantity, unit_price and
\* discount_amount in cents, vat_rate in hundredths.
ItemKinds ==
    { ItemOf(InitialCatalog, 1, 2), ItemOf(InitialCatalog, 2, 1) }
ReqItems ==
    {<< >>} \cup { <<k>> : k \in ItemKinds }
\* one item: quantity 2 at 50.00, VAT 0.19, no discount
StandardItems ==
    <<ItemOf(InitialCatalog, 1, 2)>>
PaymentMethods ==
    {"bar", "karte"}
StatusValues ==
    {"draft", "open", "paid", "deleted"}

\* customers: customer c is a row of organization c; the id MissingCustomer
\* is no row of the table
Customers ==
    Orgs
MissingCustomer ==
    MaxOrg + 1
CustomerOrg(c) ==
    c
CustomerExists(c) ==
    c \in Customers

\* the status values a creation request carries: the form's default and a
\* choice of its status select
RequestStatuses ==
    {"draft", "paid"}

\* an InvoiceCreate
Request(org, customer, status, items) ==
    [organization_id |-> org, customer_id |-> customer, status |-> status, items |-> items]

VARIABLES
    now_year,           \* EXTRACT(YEAR FROM NOW())
    invoice_sequences,  \* committed rows: (organization_id, year) -> last_number
    invoices,           \* committed rows: id -> invoice
    invoice_items,      \* committed rows: set of items
    next_item_id,       \* invoice_items.id SERIAL
    products,           \* committed rows: id -> product
    tx,                 \* the createInvoice transactions in flight
    modal,              \* the number shown in the open creation modal
    response,           \* the backend's answer to the last finished request
    form,               \* the FormData handed to createInvoiceAction
    action_state,       \* the ActionState createInvoiceAction returned
    api_calls,          \* calls of api.invoices.create
    revalidated,        \* calls of revalidatePath('/invoices')
    invoiceUI,          \* the state of InvoiceUIProvider
    slider,             \* the state of InvoiceSlider and its fetches in flight
    section,            \* the state of CustomerInvoicesSection and its loads in flight
    customerUI,         \* the state of CustomerUIProvider
    productUI,          \* the state of ProductUIProvider
    product_form,       \* the FormData handed to the product server actions
    product_call,       \* the last call of api.products made by a server action
    table               \* InvoicesTable: the rows it is given and its selectedRows

db ==
    <<now_year, invoice_sequences, invoices, invoice_items, next_item_id, products, tx, modal,
      response>>
client ==
    <<form, action_state, api_calls, revalidated>>
ui ==
    <<invoiceUI, slider, section, customerUI, productUI, product_form, product_call, table>>
\* what the callbacks and effects of a component leave alone
sliderRest ==
    <<section, customerUI, productUI, product_form, product_call, table>>
sectionRest ==
    <<invoiceUI, slider, customerUI, productUI, product_form, product_call, table>>
customerUIRest ==
    <<invoiceUI, slider, section, productUI, product_form, product_call, table>>
productUIRest ==
    <<invoiceUI, slider, section, customerUI, product_form, product_call, table>>
productFormRest ==
    <<invoiceUI, slider, section, customerUI, productUI, table>>
tableRest ==
    <<invoiceUI, slider, section, customerUI, productUI, product_form, product_call>>
vars ==
    <<db, client, ui>>

\* --------------------------------------------------------------- helpers
RECURSIVE ToDigits(_)
ToDigits(n) ==
    IF n < 10 THEN <<n>> ELSE Append(ToDigits(n \div 10), n % 10)

RECURSIVE FromDigits(_)
FromDigits(s) ==
    IF s = << >> THEN 0
    ELSE 10 * FromDigits(SubSeq(s, 1, Len(s) - 1)) + s[Len(s)]

\* LPAD(string, length, fill): pads on the left, cuts on the right when longer.
LPAD(s, len, fill) ==
    IF Len(s) >= len THEN SubSeq(s, 1, len)
    ELSE [i \in 1..len |-> IF i <= len - Len(s) THEN fill ELSE s[i - (len - Len(s))]]

\* current_year || '-' || LPAD(next_number::TEXT, 6, '0')
FormatNumber(year, n) ==
    <<year, LPAD(ToDigits(n), PadLen, 0)>>

NumberYear(invoice_number) ==
    invoice_number[1]
NumberValue(invoice_number) ==
    FromDigits(invoice_number[2])

\* last_number of a counter row, 0 when the row does not exist yet
LastNumber(k) ==
    IF k \in DOMAIN invoice_sequences THEN invoice_sequences[k] ELSE 0

\* Line Total = (Unit Price x Quantity) - Discount
LineTotal(it) ==
    it.unit_price * it.quantity - it.discount_amount

\* storing into NUMERIC(10,2): round half away from zero, x in 1/100 cent
Round2(x) ==
    IF x >= 0 THEN (x + 50) \div 100 ELSE -((-x + 50) \div 100)

\* SUM(line_total) over a set of item rows
RECURSIVE SumLineTotal(_)
SumLineTotal(S) ==
    IF S = {} THEN 0
    ELSE LET x == CHOOSE y \in S : TRUE IN x.line_total + SumLineTotal(S \ {x})

\* SUM(line_total * vat_rate) over a set of item rows, in 1/100 cent
RECURSIVE SumVat(_)
SumVat(S) ==
    IF S = {} THEN 0
    ELSE LET x == CHOOSE y \in S : TRUE IN x.line_total * x.vat_rate + SumVat(S \ {x})

\* ComputeTotals with the second UPDATE (total = subtotal + vat_amount) lost
ComputeTotals_NoVat(items) ==
    LET sub == SumLineTotal(items)
        vat == Round2(SumVat(items))
    IN [subtotal |-> sub, vat_amount |-> vat, total |-> sub]

\* update_invoice_totals(): the three totals over the items of one invoice
ComputeTotals(items) ==
    LET sub == SumLineTotal(items)
        vat == Round2(SumVat(items))
    IN [subtotal |-> sub, vat_amount |-> vat, total |-> sub + vat]

\* the numbers handed out so far, over all counter rows
RECURSIVE SumRows(_, _)
SumRows(f, D) ==
    IF D = {} THEN 0
    ELSE LET k == CHOOSE x \in D : TRUE IN f[k] + SumRows(f, D \ {k})
Allocated ==
    SumRows(invoice_sequences, DOMAIN invoice_sequences)

ItemsOf(id) ==
    { it \in invoice_items : it.invoice_id = id }

\* a function with the row k set to v, the row inserted when absent
SetRow(f, k, v) ==
    [x \in DOMAIN f \cup {k} |-> IF x = k THEN v ELSE f[x]]

IdleTx ==
    [pc |-> "idle", org |-> None, year |-> None, number |-> NoNumber, next_number |-> 0,
     how |-> "none", customer |-> None, status |-> "none", items |-> << >>]

InFlight ==
    { t \in Txs : tx[t].pc # "idle" }

\* TxKey with the counter looked up by year alone (WHERE year = current_year)
TxKey_YearOnly(t) ==
    <<1, tx[t].year>>

\* WHERE organization_id = org_id AND year = current_year
TxKey(t) ==
    <<tx[t].org, tx[t].year>>

\* HoldsRow with the lock counted as held from the moment a transaction asks
\* for it
HoldsRow_Requested(t, k) ==
    /\ tx[t].pc \in {"update_seq", "insert_invoice", "commit"}
    /\ TxKey(t) = k

\* t has written the counter row k and not yet committed: it holds the row lock
\* (after UPDATE) or the uncommitted primary-key entry (after INSERT)
HoldsRow(t, k) ==
    /\ tx[t].pc \in {"insert_invoice", "commit"}
    /\ tx[t].how \in {"update", "insert"}
    /\ TxKey(t) = k

RowBusy(k, t) ==
    \E u \in Txs \ {t} : HoldsRow(u, k)

TxResp(kind, t) ==
    [kind |-> kind, org |-> tx[t].org, customer |-> tx[t].customer,
     status |-> tx[t].status, number |-> tx[t].number]

PendingItems ==
    Cardinality({ t \in InFlight : tx[t].items # << >> })

\* ------------------------------------------------ createInvoiceAction
\* A FormData entry: absent or empty, text that is no number, or a number
\* (an id, or an amount in tenths of a cent: an entry may carry more than two
\* decimals).
Absent ==
    [kind |-> "absent", v |-> 0]
Text ==
    [kind |-> "text", v |-> 0]
Num(n) ==
    [kind |-> "num", v |-> n]

CustomerFields ==
    {Absent, Text, Num(1)}
SubtotalFields ==
    {Absent, Text, Num(-10), Num(0), Num(100000)}
VatFields ==
    {Absent, Num(-10), Num(0), Num(4), Num(19000)}
TotalFields ==
    {Absent, Text, Num(-10), Num(0), Num(10), Num(14), Num(100000), Num(119000),
     Num(119010), Num(119020)}
SnapshotFields ==
    {"absent", "json", "malformed"}
\* the items entry: absent, text that is no JSON, JSON that is no array, the
\* array [], an array of items
ItemsFields ==
    {"absent", "malformed", "object", "empty", "array"}

Forms ==
    [customer_id : CustomerFields, subtotal : SubtotalFields, vat_amount : VatFields,
     total : TotalFields, prescription_snapshot : SnapshotFields, items : ItemsFields]

EmptyForm ==
    [customer_id |-> Absent, subtotal |-> Absent, vat_amount |-> Absent, total |-> Absent,
     prescription_snapshot |-> "absent", items |-> "absent"]

Null ==
    "null"
NoState ==
    [success |-> FALSE, error |-> Null, message |-> Null]

\* parseDecimal(value) ?? 0: an absent, empty or non-numeric entry counts as 0
parseDecimal(f) ==
    IF f.kind = "num" THEN f.v ELSE 0

\* extractInvoiceItems: the parsed array ([] for "[]"), [] when the entry is
\* absent, is not valid JSON or is not an array
extractInvoiceItems(f) ==
    IF f.items = "array" THEN StandardItems ELSE << >>

\* Number(formData.get('customer_id') || 0): NaN for text
CustomerNumber(f) ==
    [nan |-> f.kind = "text", v |-> IF f.kind = "num" THEN f.v ELSE 0]

\* JSON.parse(prescription_snapshot) throws on malformed JSON
ExtractThrows(f) ==
    f.prescription_snapshot = "malformed"

extractInvoiceData(f) ==
    [organization_id |-> 1,
     customer_id |-> CustomerNumber(f.customer_id),
     subtotal |-> parseDecimal(f.subtotal),
     vat_amount |-> parseDecimal(f.vat_amount),
     total |-> parseDecimal(f.total),
     items |-> extractInvoiceItems(f)]

Abs(x) ==
    IF x < 0 THEN -x ELSE x

\* Number(x.toFixed(2)): x in tenths of a cent, the result in cents, the
\* nearest cent.  (No amount of the model lies halfway between two cents,
\* where the binary representation of x decides.)
toFixed2(x) ==
    IF x >= 0 THEN (x + 5) \div 10 ELSE -((-x + 5) \div 10)

\* Pairs <<calculatedTotal, total>> one cent apart whose difference, taken in
\* IEEE-754 doubles, is above 0.01 (119.01 - 119 = 0.010000000000005116); for
\* the other such pairs of the amounts above (0.01 - 0) the difference is 0.01
\* or less.
RoundingRejects ==
    { <<9999, 10000>>, <<11900, 11901>> }

\* Math.abs(calculatedTotal - Number(total.toFixed(2))) > 0.01
TotalMismatch(calculated, total) ==
    \/ Abs(calculated - total) > 1
    \/ Abs(calculated - total) = 1 /\ <<calculated, total>> \in RoundingRejects

\* validateInvoiceData without the comparison of the totals
validateInvoiceData_NoMismatch(invoice) ==
    IF invoice.customer_id.nan \/ invoice.customer_id.v = 0
    THEN "Ein Kunde muss ausgewaehlt werden."
    ELSE IF invoice.subtotal < 0 \/ invoice.vat_amount < 0 \/ invoice.total < 0
    THEN "Finanzbetraege duerfen nicht negativ sein."
    ELSE IF invoice.total = 0
    THEN "Die Gesamtsumme darf nicht 0 sein."
    ELSE Null

validateInvoiceData(invoice) ==
    IF invoice.customer_id.nan \/ invoice.customer_id.v = 0
    THEN "Ein Kunde muss ausgewaehlt werden."
    ELSE IF invoice.subtotal < 0 \/ invoice.vat_amount < 0 \/ invoice.total < 0
    THEN "Finanzbetraege duerfen nicht negativ sein."
    ELSE IF invoice.total = 0
    THEN "Die Gesamtsumme darf nicht 0 sein."
    ELSE IF TotalMismatch(toFixed2(invoice.subtotal + invoice.vat_amount),
                          toFixed2(invoice.total))
    THEN "Gesamtsumme muss Summe aus Zwischensumme und Mehrwertsteuer entsprechen."
    ELSE Null

\* createInvoiceAction with api.invoices.create called before the validation
createInvoiceAction_CallFirst(api_ok) ==
    /\ IF ExtractThrows(form)
       THEN /\ action_state' = [success |-> FALSE, error |-> "SyntaxError", message |-> Null]
            /\ api_calls' = 0
            /\ revalidated' = 0
       ELSE /\ api_calls' = 1
            /\ IF validateInvoiceData(extractInvoiceData(form)) # Null
               THEN /\ action_state' = [success |-> FALSE,
                                        error |-> validateInvoiceData(extractInvoiceData(form)),
                                        message |-> Null]
                    /\ revalidated' = 0
               ELSE IF api_ok
               THEN /\ revalidated' = 1
                    /\ action_state' = [success |-> TRUE, error |-> Null,
                                        message |-> "Rechnung erfolgreich erstellt"]
               ELSE /\ revalidated' = 0
                    /\ action_state' = [success |-> FALSE, error |-> "HTTP 500",
                                        message |-> Null]
    /\ UNCHANGED form
    /\ UNCHANGED <<db, ui>>

\* createInvoiceAction(prevState, formData); api_ok is whether
\* api.invoices.create resolves or throws.  api_calls and revalidated count
\* the calls of this invocation.
createInvoiceAction(api_ok) ==
    /\ IF ExtractThrows(form)
       THEN /\ action_state' = [success |-> FALSE, error |-> "SyntaxError", message |-> Null]
            /\ api_calls' = 0
            /\ revalidated' = 0
       ELSE IF validateInvoiceData(extractInvoiceData(form)) # Null
       THEN /\ action_state' = [success |-> FALSE,
                                error |-> validateInvoiceData(extractInvoiceData(form)),
                                message |-> Null]
            /\ api_calls' = 0
            /\ revalidated' = 0
       ELSE /\ api_calls' = 1
            /\ IF api_ok
               THEN /\ revalidated' = 1
                    /\ action_state' = [success |-> TRUE, error |-> Null,
                                        message |-> "Rechnung erfolgreich erstellt"]
               ELSE /\ revalidated' = 0
                    /\ action_state' = [success |-> FALSE, error |-> "HTTP 500",
                                        message |-> Null]
    /\ UNCHANGED form
    /\ UNCHANGED <<db, ui>>

\* the user changes one entry of the form
EditForm(f) ==
    /\ f # form
    /\ form' = f
    /\ UNCHANGED <<action_state, api_calls, revalidated>>
    /\ UNCHANGED <<db, ui>>

\* -------------------------------------------------------- InvoiceForm
\* What the user can have in the subtotal and vat_amount inputs: nothing,
\* text that is no number, or an amount in tenths of a cent.
SubtotalInputs ==
    {Absent, Text, Num(-10), Num(0), Num(99994), Num(100000)}
VatInputs ==
    {Absent, Text, Num(0), Num(4), Num(19000)}

\* Number.parseFloat(value) || 0
parseFloatOrZero(f) ==
    IF f.kind = "num" THEN f.v ELSE 0

\* totalAmount: (subtotalValue + vatValue).toFixed(2), the value of the
\* read-only total input, as the entry it makes in the FormData
totalAmount(subtotal, vatAmount) ==
    Num(10 * toFixed2(parseFloatOrZero(subtotal) + parseFloatOrZero(vatAmount)))

\* the form as first rendered: useState('0.00') for both amounts, no customer
\* chosen, no prescription_snapshot and no items entry
RenderedInvoiceForm ==
    [customer_id |-> Absent, subtotal |-> Num(0), vat_amount |-> Num(0),
     total |-> totalAmount(Num(0), Num(0)), prescription_snapshot |-> "absent",
     items |-> "absent"]

\* the user chooses a customer in the select
SelectCustomer(c) ==
    /\ c # form.customer_id
    /\ form' = [form EXCEPT !.customer_id = c]
    /\ UNCHANGED <<action_state, api_calls, revalidated>>
    /\ UNCHANGED <<db, ui>>

\* onChange of the subtotal input: setSubtotal, and the render that follows
\* computes totalAmount anew
setSubtotal(value) ==
    /\ value # form.subtotal
    /\ form' = [form EXCEPT !.subtotal = value,
                            !.total = totalAmount(value, form.vat_amount)]
    /\ UNCHANGED <<action_state, api_calls, revalidated>>
    /\ UNCHANGED <<db, ui>>

\* setVatAmount with totalAmount memoized on the subtotal alone
setVatAmount_StaleTotal(value) ==
    /\ value # form.vat_amount
    /\ form' = [form EXCEPT !.vat_amount = value]
    /\ UNCHANGED <<action_state, api_calls, revalidated>>
    /\ UNCHANGED <<db, ui>>

\* onChange of the vat_amount input
setVatAmount(value) ==
    /\ value # form.vat_amount
    /\ form' = [form EXCEPT !.vat_amount = value,
                            !.total = totalAmount(form.subtotal, value)]
    /\ UNCHANGED <<action_state, api_calls, revalidated>>
    /\ UNCHANGED <<db, ui>>

\* ---------------------------------------------------- product actions
\* The FormData of the product actions.  current_price is in cents, the
\* vat_rate entry is the value of the form's select, a percentage.
ProductIdFields ==
    {Absent, Num(1)}
NameFields ==
    {"absent", "text"}
ProductTypeFields ==
    {"absent", "frame", "other"}
PriceFields ==
    {Absent, Text, Num(6000)}
VatRateFields ==
    {Absent, Num(19), Num(7), Num(0)}
DetailsFields ==
    {"absent", "malformed"}

EmptyProductForm ==
    [product_id |-> Absent, name |-> "absent", product_type |-> "absent",
     current_price |-> Absent, vat_rate |-> Absent, details |-> "absent"]

\* JSON.parse of lens_coating / details throws on an entry that is no JSON
ProductExtractThrows(f) ==
    f.details = "malformed"

\* extractProductData: parseFloat of the price (NaN for text, 0 when absent)
\* and of the vat_rate entry, 0.19 when it is absent; vat_rate in hundredths,
\* so parseFloat('19') = 19 is 1900
extractProductData(f) ==
    [name |-> f.name,
     product_type |-> f.product_type,
     current_price |-> [nan |-> f.current_price.kind = "text",
                        v |-> IF f.current_price.kind = "num" THEN f.current_price.v ELSE 0],
     vat_rate |-> IF f.vat_rate.kind = "absent" THEN 19 ELSE 100 * f.vat_rate.v]

NoData ==
    extractProductData(EmptyProductForm)
NoCall ==
    [op |-> "none", id |-> None, data |-> NoData]

\* the "Basic validation" of createProductAction and updateProductAction
ValidateProductData(data) ==
    IF data.name = "absent" \/ data.product_type = "absent"
    THEN "Produktname und Produkttyp sind erforderlich"
    ELSE IF data.current_price.nan \/ data.current_price.v <= 0
    THEN "Ein gueltiger Preis ist erforderlich"
    ELSE IF data.product_type # "frame"
    THEN "Ungueltiger Produkttyp"
    ELSE Null

\* the checks of the products table on a row: current_price > 0 and
\* 0 <= vat_rate <= 1
ProductRowValid(data) ==
    /\ ~data.current_price.nan
    /\ data.current_price.v > 0
    /\ data.vat_rate \in 0..100

\* createProductAction with extractProductData called before the try block:
\* the exception of JSON.parse leaves the action
createProductAction_ExtractOutsideTry(api_ok) ==
    /\ IF ProductExtractThrows(product_form)
       THEN /\ action_state' = [success |-> FALSE, error |-> Null, message |-> "thrown"]
            /\ api_calls' = 0
            /\ revalidated' = 0
            /\ product_call' = NoCall
       ELSE IF ValidateProductData(extractProductData(product_form)) # Null
       THEN /\ action_state' = [success |-> FALSE,
                                error |-> ValidateProductData(extractProductData(product_form)),
                                message |-> Null]
            /\ api_calls' = 0
            /\ revalidated' = 0
            /\ product_call' = NoCall
       ELSE /\ api_ok => ProductRowValid(extractProductData(product_form))
            /\ api_calls' = 1
            /\ product_call' = [op |-> "create", id |-> None,
                                data |-> extractProductData(product_form)]
            /\ IF api_ok
               THEN /\ revalidated' = 1
                    /\ action_state' = [success |-> TRUE, error |-> Null,
                                        message |-> "Produkt erfolgreich erstellt"]
               ELSE /\ revalidated' = 0
                    /\ action_state' = [success |-> FALSE, error |-> "HTTP 500",
                                        message |-> Null]
    /\ UNCHANGED <<db, form, product_form, productFormRest>>

\* createProductAction(prevState, formData); api_ok is whether
\* api.products.create resolves or throws (it throws on a row the table
\* refuses).  api_calls and revalidated count the calls of this invocation,
\* product_call is the call it made; the request itself is served by the
\* backend.
createProductAction(api_ok) ==
    /\ IF ProductExtractThrows(product_form)
       THEN /\ action_state' = [success |-> FALSE, error |-> "SyntaxError", message |-> Null]
            /\ api_calls' = 0
            /\ revalidated' = 0
            /\ product_call' = NoCall
       ELSE IF ValidateProductData(extractProductData(product_form)) # Null
       THEN /\ action_state' = [success |-> FALSE,
                                error |-> ValidateProductData(extractProductData(product_form)),
                                message |-> Null]
            /\ api_calls' = 0
            /\ revalidated' = 0
            /\ product_call' = NoCall
       ELSE /\ api_ok => ProductRowValid(extractProductData(product_form))
            /\ api_calls' = 1
            /\ product_call' = [op |-> "create", id |-> None,
                                data |-> extractProductData(product_form)]
            /\ IF api_ok
               THEN /\ revalidated' = 1
                    /\ action_state' = [success |-> TRUE, error |-> Null,
                                        message |-> "Produkt erfolgreich erstellt"]
               ELSE /\ revalidated' = 0
                    /\ action_state' = [success |-> FALSE, error |-> "HTTP 500",
                                        message |-> Null]
    /\ UNCHANGED <<db, form, product_form, productFormRest>>

\* updateProductAction(prevState, formData): api.products.update(id, data, 1)
\* resolves only for a row of the table and data the table accepts
updateProductAction(api_ok) ==
    /\ IF product_form.product_id.kind = "absent"
       THEN /\ action_state' = [success |-> FALSE, error |-> "Produkt-ID fehlt",
                                message |-> Null]
            /\ api_calls' = 0
            /\ revalidated' = 0
            /\ product_call' = NoCall
       ELSE IF ProductExtractThrows(product_form)
       THEN /\ action_state' = [success |-> FALSE, error |-> "SyntaxError", message |-> Null]
            /\ api_calls' = 0
            /\ revalidated' = 0
            /\ product_call' = NoCall
       ELSE IF ValidateProductData(extractProductData(product_form)) # Null
       THEN /\ action_state' = [success |-> FALSE,
                                error |-> ValidateProductData(extractProductData(product_form)),
                                message |-> Null]
            /\ api_calls' = 0
            /\ revalidated' = 0
            /\ product_call' = NoCall
       ELSE /\ api_ok => /\ ProductRowValid(extractProductData(product_form))
                         /\ product_form.product_id.v \in DOMAIN products
            /\ api_calls' = 1
            /\ product_call' = [op |-> "update", id |-> product_form.product_id.v,
                                data |-> extractProductData(product_form)]
            /\ IF api_ok
               THEN /\ revalidated' = 1
                    /\ action_state' = [success |-> TRUE, error |-> Null,
                                        message |-> "Produkt erfolgreich aktualisiert"]
               ELSE /\ revalidated' = 0
                    /\ action_state' = [success |-> FALSE, error |-> "HTTP 500",
                                        message |-> Null]
    /\ UNCHANGED <<db, form, product_form, productFormRest>>

\* deleteProductAction(prevState, formData): api.products.delete(id, 1)
deleteProductAction(api_ok) ==
    /\ IF product_form.product_id.kind = "absent"
       THEN /\ action_state' = [success |-> FALSE, error |-> "Produkt-ID fehlt",
                                message |-> Null]
            /\ api_calls' = 0
            /\ revalidated' = 0
            /\ product_call' = NoCall
       ELSE /\ api_ok => product_form.product_id.v \in DOMAIN products
            /\ api_calls' = 1
            /\ product_call' = [op |-> "delete", id |-> product_form.product_id.v,
                                data |-> NoData]
            /\ IF api_ok
               THEN /\ revalidated' = 1
                    /\ action_state' = [success |-> TRUE, error |-> Null,
                                        message |-> "Produkt erfolgreich deaktiviert"]
               ELSE /\ revalidated' = 0
                    /\ action_state' = [success |-> FALSE, error |-> "HTTP 500",
                                        message |-> Null]
    /\ UNCHANGED <<db, form, product_form, productFormRest>>

\* ------------------------------------------------------- ProductForm
\* the options of the vat_rate select, in percent
VatRateOptions ==
    <<19, 7, 0>>

\* the stored rates r (in hundredths) for which r * 100, taken in IEEE-754
\* doubles on the fraction, is no whole number: 0.07 * 100 = 7.000000000000001
InexactPercent ==
    {7}

\* defaultValue={product?.vat_rate ? (product.vat_rate * 100).toString() : '19'}:
\* the option the select shows, the first one when no option has the value
VatRateDefault(vat_rate) ==
    IF vat_rate = 0
    THEN 19
    ELSE IF vat_rate \notin InexactPercent
            /\ \E i \in DOMAIN VatRateOptions : VatRateOptions[i] = vat_rate
    THEN vat_rate
    ELSE VatRateOptions[1]

\* the entries of ProductForm as rendered for a product (edit mode)
ProductForm(p) ==
    [product_id |-> Num(p), name |-> "text", product_type |-> "frame",
     current_price |-> IF products[p].current_price = 0 THEN Absent
                       ELSE Num(products[p].current_price),
     vat_rate |-> Num(VatRateDefault(products[p].vat_rate)),
     details |-> "absent"]

\* the entries of ProductForm as rendered without a product (create mode)
NewProductForm ==
    [product_id |-> Absent, name |-> "absent", product_type |-> "absent",
     current_price |-> Absent, vat_rate |-> Num(VatRateOptions[1]), details |-> "absent"]

\* the form is opened for a product of the list
OpenProductForm(p) ==
    /\ p \in DOMAIN products
    /\ product_form' = ProductForm(p)
    /\ UNCHANGED <<db, client, product_call, productFormRest>>

\* the form is opened for a new product
OpenNewProductForm ==
    /\ product_form' = NewProductForm
    /\ UNCHANGED <<db, client, product_call, productFormRest>>

\* the user changes one entry of the product form
EditProductForm(f) ==
    /\ f # product_form
    /\ product_form' = f
    /\ UNCHANGED <<db, client, product_call, productFormRest>>

\* ------------------------------------------------------------ components
\* The client components as mounted: useState(false), useState(null).  A
\* nullable object (an invoice, or null) is the set of at most one row.
InitUi ==
    /\ invoiceUI = [showCreateModal |-> FALSE, showDetails |-> FALSE,
                    selectedInvoice |-> {}]
    /\ slider = [invoiceDetails |-> {}, loading |-> FALSE, error |-> Null,
                 fetches |-> {}]
    /\ section = [customerId |-> None, invoices |-> {}, loadedFor |-> None,
                  isLoading |-> FALSE, error |-> Null, loads |-> {}]
    /\ customerUI = [showCreateModal |-> FALSE, showSlider |-> FALSE,
                     selectedCustomer |-> {}]
    /\ productUI = [showCreateModal |-> FALSE, showSlider |-> FALSE,
                    selectedProduct |-> {}]
    /\ product_form = EmptyProductForm
    /\ product_call = NoCall
    /\ table = [invoices |-> {}, selectedRows |-> {}]

\* ------------------------------------------------------- InvoicesTable
\* The rows are the ids of the invoices the page hands to the table (the
\* list's length is the number of ids: id is the primary key).
\* checked={selectedRows.size === invoices.length && invoices.length > 0}
SelectAllChecked ==
    /\ Cardinality(table.selectedRows) = Cardinality(table.invoices)
    /\ Cardinality(table.invoices) > 0

\* the page is rendered anew (revalidatePath, a search, another page of the
\* list) and hands the table other rows; the table stays mounted and keeps
\* its state
RefreshRows(rows) ==
    /\ rows \subseteq DOMAIN invoices
    /\ rows # table.invoices
    /\ table' = [table EXCEPT !.invoices = rows]
    /\ UNCHANGED <<db, client, tableRest>>

handleSelectAll ==
    /\ table' = [table EXCEPT !.selectedRows =
                    IF Cardinality(table.selectedRows) = Cardinality(table.invoices)
                    THEN {}
                    ELSE table.invoices]
    /\ UNCHANGED <<db, client, tableRest>>

\* the checkbox of a displayed row
handleSelectRow(id) ==
    /\ id \in table.invoices
    /\ table' = [table EXCEPT !.selectedRows =
                    IF id \in table.selectedRows
                    THEN table.selectedRows \ {id}
                    ELSE table.selectedRows \cup {id}]
    /\ UNCHANGED <<db, client, tableRest>>

InitDb ==
    /\ now_year = FirstYear
    /\ invoice_sequences = [k \in {} |-> 0]
    /\ invoices = << >>
    /\ invoice_items = {}
    /\ next_item_id = 1
    /\ products = InitialCatalog
    /\ tx = [t \in Txs |-> IdleTx]
    /\ modal = NoModal
    /\ response = Resp("none")

Init ==
    /\ InitDb
    /\ form = EmptyForm
    /\ action_state = NoState
    /\ api_calls = 0
    /\ revalidated = 0
    /\ InitUi

\* ------------------------------------------------- createInvoice transaction
\* POST /api/v1/invoices: the gateway opens a transaction; NOW() is fixed at
\* its start.  INSERT INTO invoices fires assign_invoice_number().
\* CustomerBelongs that only looks the customer up
CustomerBelongs_AnyOrg(org, customer) ==
    CustomerExists(customer)

\* "validates customer_id exists and belongs to organization_id"
CustomerBelongs(org, customer) ==
    CustomerExists(customer) /\ CustomerOrg(customer) = org

NotFound(invoice) ==
    [kind |-> "NotFound", org |-> invoice.organization_id,
     customer |-> invoice.customer_id, status |-> invoice.status, number |-> NoNumber]

BeginCreate(t, invoice) ==
    /\ tx[t].pc = "idle"
    /\ Len(invoices) + Cardinality(InFlight) < MaxInvoices
    /\ invoice.items # << >> => next_item_id + PendingItems <= MaxItems
    /\ IF CustomerBelongs(invoice.organization_id, invoice.customer_id)
       THEN /\ tx' = [tx EXCEPT ![t] = [pc |-> "update_seq",
                                        org |-> invoice.organization_id,
                                        year |-> now_year, number |-> NoNumber,
                                        next_number |-> 0, how |-> "none",
                                        customer |-> invoice.customer_id,
                                        status |-> invoice.status,
                                        items |-> invoice.items]]
            /\ UNCHANGED response
       ELSE /\ response' = NotFound(invoice)
            /\ UNCHANGED tx
    /\ UNCHANGED <<client, ui, products>>
    /\ UNCHANGED <<now_year, invoice_sequences, invoices, invoice_items, next_item_id,
                   modal>>

\* SeqUpdate with the increment committed at once, outside the caller's
\* transaction
SeqUpdate_WriteThrough(t) ==
    /\ tx[t].pc = "update_seq"
    /\ IF TxKey(t) \in DOMAIN invoice_sequences
       THEN /\ ~RowBusy(TxKey(t), t)
            /\ tx' = [tx EXCEPT ![t].pc = "insert_invoice", ![t].how = "update",
                                ![t].next_number = invoice_sequences[TxKey(t)] + 1,
                                ![t].number = FormatNumber(tx[t].year,
                                                  invoice_sequences[TxKey(t)] + 1)]
            /\ invoice_sequences' = [invoice_sequences EXCEPT ![TxKey(t)] = @ + 1]
       ELSE /\ tx' = [tx EXCEPT ![t].pc = "insert_seq"]
            /\ UNCHANGED invoice_sequences
    /\ UNCHANGED <<client, ui, products>>
    /\ UNCHANGED <<now_year, invoices, invoice_items, next_item_id, modal, response>>

\* get_next_invoice_number: UPDATE invoice_sequences SET last_number =
\* last_number + 1 ... RETURNING.  The statement waits for the row lock of a
\* concurrent writer; an uncommitted row of another transaction is not seen.
SeqUpdate(t) ==
    /\ tx[t].pc = "update_seq"
    /\ IF TxKey(t) \in DOMAIN invoice_sequences
       THEN /\ ~RowBusy(TxKey(t), t)
            /\ tx' = [tx EXCEPT ![t].pc = "insert_invoice", ![t].how = "update",
                                ![t].next_number = invoice_sequences[TxKey(t)] + 1,
                                ![t].number = FormatNumber(tx[t].year,
                                                  invoice_sequences[TxKey(t)] + 1)]
       ELSE tx' = [tx EXCEPT ![t].pc = "insert_seq"]
    /\ UNCHANGED <<client, ui, products>>
    /\ UNCHANGED <<now_year, invoice_sequences, invoices, invoice_items, next_item_id,
                   modal, response>>

\* SeqInsert with the new row left at the column default
\* (last_number INTEGER NOT NULL DEFAULT 0)
SeqInsert_Default(t) ==
    /\ tx[t].pc = "insert_seq"
    /\ IF TxKey(t) \in DOMAIN invoice_sequences
       THEN /\ tx' = [tx EXCEPT ![t] = IdleTx]
            /\ response' = TxResp("duplicate_sequence_key", t)
       ELSE /\ ~RowBusy(TxKey(t), t)
            /\ tx' = [tx EXCEPT ![t].pc = "insert_invoice", ![t].how = "insert",
                                ![t].next_number = 0,
                                ![t].number = FormatNumber(tx[t].year, 0)]
            /\ UNCHANGED response
    /\ UNCHANGED <<client, ui, products>>
    /\ UNCHANGED <<now_year, invoice_sequences, invoices, invoice_items, next_item_id,
                   modal>>

\* IF NOT FOUND THEN INSERT INTO invoice_sequences VALUES (org_id, year, 1).
\* The primary key makes the statement wait for an uncommitted row of the
\* same key and fail once such a row is committed.
SeqInsert(t) ==
    /\ tx[t].pc = "insert_seq"
    /\ IF TxKey(t) \in DOMAIN invoice_sequences
       THEN /\ tx' = [tx EXCEPT ![t] = IdleTx]
            /\ response' = TxResp("duplicate_sequence_key", t)
       ELSE /\ ~RowBusy(TxKey(t), t)
            /\ tx' = [tx EXCEPT ![t].pc = "insert_invoice", ![t].how = "insert",
                                ![t].next_number = 1,
                                ![t].number = FormatNumber(tx[t].year, 1)]
            /\ UNCHANGED response
    /\ UNCHANGED <<client, ui, products>>
    /\ UNCHANGED <<now_year, invoice_sequences, invoices, invoice_items, next_item_id,
                   modal>>

\* invoice_number TEXT UNIQUE NOT NULL: the row is entered into the unique
\* index; the statement waits for an uncommitted row with the same number and
\* fails when a committed row has it.
NumberTaken(n) ==
    \E i \in DOMAIN invoices : invoices[i].invoice_number = n

NumberPending(n, t) ==
    \E u \in Txs \ {t} : tx[u].pc = "commit" /\ tx[u].number = n

InsertInvoice(t) ==
    /\ tx[t].pc = "insert_invoice"
    /\ IF NumberTaken(tx[t].number)
       THEN /\ tx' = [tx EXCEPT ![t] = IdleTx]
            /\ response' = TxResp("duplicate_invoice_number", t)
       ELSE /\ ~NumberPending(tx[t].number, t)
            /\ tx' = [tx EXCEPT ![t].pc = "commit"]
            /\ UNCHANGED response
    /\ UNCHANGED <<client, ui, products>>
    /\ UNCHANGED <<now_year, invoice_sequences, invoices, invoice_items, next_item_id,
                   modal>>

\* the item rows a request's items become, line_total computed at write time
NewItems(id, items, first) ==
    { [id |-> first + i - 1, invoice_id |-> id, product_id |-> items[i].product_id,
       product_snapshot |-> items[i].product_snapshot, quantity |-> items[i].quantity,
       unit_price |-> items[i].unit_price, discount_amount |-> items[i].discount_amount,
       vat_rate |-> items[i].vat_rate, line_total |-> LineTotal(items[i])]
      : i \in 1..Len(items) }

\* NewInvoice with the status of the request written to the row
NewInvoice_RequestStatus(id, t, rows) ==
    [id |-> id, organization_id |-> tx[t].org, customer_id |-> tx[t].customer,
     invoice_number |-> tx[t].number, status |-> tx[t].status,
     payment_method |-> "none",
     subtotal |-> ComputeTotals(rows).subtotal,
     vat_amount |-> ComputeTotals(rows).vat_amount,
     total |-> ComputeTotals(rows).total]

\* the invoice row of transaction t: "Initial state: open", whatever status
\* the request carries; the totals are those of its item rows
NewInvoice(id, t, rows) ==
    [id |-> id, organization_id |-> tx[t].org, customer_id |-> tx[t].customer,
     invoice_number |-> tx[t].number, status |-> "open",
     payment_method |-> "none",
     subtotal |-> ComputeTotals(rows).subtotal,
     vat_amount |-> ComputeTotals(rows).vat_amount,
     total |-> ComputeTotals(rows).total]

\* COMMIT: the counter write, the invoice row and its item rows become visible
\* together and the locks are released.
Commit(t) ==
    /\ tx[t].pc = "commit"
    /\ LET id == Len(invoices) + 1
           rows == NewItems(id, tx[t].items, next_item_id)
       IN /\ invoices' = Append(invoices, NewInvoice(id, t, rows))
          /\ invoice_items' = invoice_items \cup rows
          /\ next_item_id' = next_item_id + Len(tx[t].items)
    /\ invoice_sequences' =
          IF tx[t].how \in {"update", "insert"}
          THEN SetRow(invoice_sequences, TxKey(t), tx[t].next_number)
          ELSE invoice_sequences
    /\ tx' = [tx EXCEPT ![t] = IdleTx]
    /\ response' = TxResp("committed", t)
    /\ UNCHANGED <<client, ui, products>>
    /\ UNCHANGED <<now_year, modal>>

\* ROLLBACK at any point of the transaction: nothing it wrote becomes visible.
Abort(t) ==
    /\ tx[t].pc # "idle"
    /\ tx' = [tx EXCEPT ![t] = IdleTx]
    /\ response' = TxResp("rolled_back", t)
    /\ UNCHANGED <<client, ui, products>>
    /\ UNCHANGED <<now_year, invoice_sequences, invoices, invoice_items, next_item_id,
                   modal>>

\* ------------------------------------------------------- creation modal
\* "Number assigned and displayed immediately when modal opens ... via
\* get_next_invoice_number() on modal open": the call commits on its own.
ModalOpen(org) ==
    /\ modal = NoModal
    /\ ~RowBusy(<<org, now_year>>, None)
    /\ Allocated < MaxNumber
    /\ invoice_sequences' = SetRow(invoice_sequences, <<org, now_year>>,
                                   LastNumber(<<org, now_year>>) + 1)
    /\ modal' = [org |-> org,
                 number |-> FormatNumber(now_year, LastNumber(<<org, now_year>>) + 1)]
    /\ UNCHANGED <<client, ui, products>>
    /\ UNCHANGED <<now_year, invoices, invoice_items, next_item_id, tx, response>>

ModalCancel ==
    /\ modal # NoModal
    /\ modal' = NoModal
    /\ UNCHANGED <<client, ui, products>>
    /\ UNCHANGED <<now_year, invoice_sequences, invoices, invoice_items, next_item_id,
                   tx, response>>

\* "Commit: Number logged to database on invoice creation": the invoice is
\* inserted with the number the modal showed, so assign_invoice_number()
\* finds NEW.invoice_number set and allocates nothing.
ModalSubmit(t, invoice) ==
    /\ modal # NoModal
    /\ invoice.organization_id = modal.org
    /\ tx[t].pc = "idle"
    /\ Len(invoices) + Cardinality(InFlight) < MaxInvoices
    /\ invoice.items # << >> => next_item_id + PendingItems <= MaxItems
    /\ IF CustomerBelongs(invoice.organization_id, invoice.customer_id)
       THEN /\ tx' = [tx EXCEPT ![t] = [pc |-> "insert_invoice", org |-> modal.org,
                                        year |-> NumberYear(modal.number),
                                        number |-> modal.number,
                                        next_number |-> 0, how |-> "preset",
                                        customer |-> invoice.customer_id,
                                        status |-> invoice.status,
                                        items |-> invoice.items]]
            /\ modal' = NoModal
            /\ UNCHANGED response
       ELSE /\ response' = NotFound(invoice)
            /\ UNCHANGED <<tx, modal>>
    /\ UNCHANGED <<client, ui, products>>
    /\ UNCHANGED <<now_year, invoice_sequences, invoices, invoice_items, next_item_id>>

\* January 1: EXTRACT(YEAR FROM NOW()) moves on
YearRollover ==
    /\ now_year + 1 \in Years
    /\ now_year' = now_year + 1
    /\ UNCHANGED <<client, ui, products>>
    /\ UNCHANGED <<invoice_sequences, invoices, invoice_items, next_item_id, tx, modal,
                   response>>

\* ------------------------------------------------------- status lifecycle
\* AllowedTransitions with a paid invoice reopened
AllowedTransitions_Reopen ==
    { <<"open", "paid">>, <<"open", "deleted">>, <<"paid", "deleted">>, <<"paid", "open">> }

\* Open -> Paid, Open -> Deleted, Paid -> Deleted; everything else is forbidden
AllowedTransitions ==
    { <<"open", "paid">>, <<"open", "deleted">>, <<"paid", "deleted">> }

\* UpdateInvoiceStatus writing whatever status the request carries
UpdateInvoiceStatus_Unchecked(id, new) ==
    /\ id \in DOMAIN invoices
    /\ invoices' = [invoices EXCEPT ![id].status = new]
    /\ response' = Resp("ok")
    /\ UNCHANGED <<client, ui, products>>
    /\ UNCHANGED <<now_year, invoice_sequences, invoice_items, next_item_id, tx, modal>>

\* updateInvoiceStatus(invoice_id, new_status)
UpdateInvoiceStatus(id, new) ==
    /\ id \in DOMAIN invoices
    /\ IF <<invoices[id].status, new>> \in AllowedTransitions
       THEN /\ invoices' = [invoices EXCEPT ![id].status = new]
            /\ response' = Resp("ok")
       ELSE /\ response' = Resp("InvalidTransition")
            /\ UNCHANGED invoices
    /\ UNCHANGED <<client, ui, products>>
    /\ UNCHANGED <<now_year, invoice_sequences, invoice_items, next_item_id, tx, modal>>

\* DeleteInvoice that also removes the item rows (ON DELETE CASCADE)
DeleteInvoice_Cascade(id) ==
    /\ id \in DOMAIN invoices
    /\ invoices' = [invoices EXCEPT ![id].status = "deleted"]
    /\ invoice_items' = { it \in invoice_items : it.invoice_id # id }
    /\ response' = Resp("ok")
    /\ UNCHANGED <<client, ui, products>>
    /\ UNCHANGED <<now_year, invoice_sequences, next_item_id, tx, modal>>

\* DELETE /api/v1/invoices/{id}: soft delete, the row is marked deleted
DeleteInvoice(id) ==
    UpdateInvoiceStatus(id, "deleted")

\* UpdateInvoice with the numbering trigger firing on UPDATE as well
UpdateInvoice_Renumber(id, pm) ==
    /\ id \in DOMAIN invoices
    /\ invoices' = [invoices EXCEPT ![id].payment_method = pm,
                                    ![id].invoice_number =
                                       FormatNumber(now_year, NumberValue(@) + 1)]
    /\ response' = Resp("ok")
    /\ UNCHANGED <<client, ui, products>>
    /\ UNCHANGED <<now_year, invoice_sequences, invoice_items, next_item_id, tx, modal>>

\* PUT /api/v1/invoices/{id} with an InvoiceUpdate (Partial<InvoiceBase>): the
\* payload has no invoice_number and no totals; a deleted invoice cannot be
\* edited.
UpdateInvoice(id, pm) ==
    /\ id \in DOMAIN invoices
    /\ IF invoices[id].status # "deleted"
       THEN /\ invoices' = [invoices EXCEPT ![id].payment_method = pm]
            /\ response' = Resp("ok")
       ELSE /\ response' = Resp("rejected")
            /\ UNCHANGED invoices
    /\ UNCHANGED <<client, ui, products>>
    /\ UNCHANGED <<now_year, invoice_sequences, invoice_items, next_item_id, tx, modal>>

\* ---------------------------------------------------------- line items
\* invoice_items_totals_trigger: AFTER INSERT OR UPDATE OR DELETE ON
\* invoice_items, update_invoice_totals() rewrites the parent's totals from
\* the item rows as they are after the statement.
WithTotals(inv, rows) ==
    [inv EXCEPT !.subtotal = ComputeTotals(rows).subtotal,
                !.vat_amount = ComputeTotals(rows).vat_amount,
                !.total = ComputeTotals(rows).total]

ApplyItems(id, rows) ==
    /\ invoice_items' = { it \in invoice_items : it.invoice_id # id } \cup rows
    /\ invoices' = [invoices EXCEPT ![id] = WithTotals(invoices[id], rows)]

\* POST /api/v1/invoices/{id}/items
AddItem(id, k) ==
    /\ id \in DOMAIN invoices
    /\ next_item_id <= MaxItems
    /\ IF invoices[id].status # "deleted"
       THEN /\ ApplyItems(id, ItemsOf(id) \cup NewItems(id, <<k>>, next_item_id))
            /\ next_item_id' = next_item_id + 1
            /\ response' = Resp("ok")
       ELSE /\ response' = Resp("rejected")
            /\ UNCHANGED <<invoices, invoice_items, next_item_id>>
    /\ UNCHANGED <<client, ui, products>>
    /\ UNCHANGED <<now_year, invoice_sequences, tx, modal>>

\* PUT /api/v1/invoices/{id}/items/{item_id} with an InvoiceItemUpdate
UpdateItem(item, k) ==
    /\ item \in invoice_items
    /\ IF invoices[item.invoice_id].status # "deleted"
       THEN /\ ApplyItems(item.invoice_id,
                          (ItemsOf(item.invoice_id) \ {item})
                             \cup NewItems(item.invoice_id, <<k>>, item.id))
            /\ response' = Resp("ok")
       ELSE /\ response' = Resp("rejected")
            /\ UNCHANGED <<invoices, invoice_items>>
    /\ UNCHANGED <<client, ui, products>>
    /\ UNCHANGED <<now_year, invoice_sequences, next_item_id, tx, modal>>

\* DeleteItem with the totals trigger not fired by DELETE
\* (AFTER INSERT OR UPDATE ON invoice_items)
DeleteItem_NoTrigger(item) ==
    /\ item \in invoice_items
    /\ IF invoices[item.invoice_id].status # "deleted"
       THEN /\ invoice_items' = invoice_items \ {item}
            /\ response' = Resp("ok")
            /\ UNCHANGED invoices
       ELSE /\ response' = Resp("rejected")
            /\ UNCHANGED <<invoices, invoice_items>>
    /\ UNCHANGED <<client, ui, products>>
    /\ UNCHANGED <<now_year, invoice_sequences, next_item_id, tx, modal>>

\* DELETE /api/v1/invoices/{id}/items/{item_id}
DeleteItem(item) ==
    /\ item \in invoice_items
    /\ IF invoices[item.invoice_id].status # "deleted"
       THEN /\ ApplyItems(item.invoice_id, ItemsOf(item.invoice_id) \ {item})
            /\ response' = Resp("ok")
       ELSE /\ response' = Resp("rejected")
            /\ UNCHANGED <<invoices, invoice_items>>
    /\ UNCHANGED <<client, ui, products>>
    /\ UNCHANGED <<now_year, invoice_sequences, next_item_id, tx, modal>>

\* ------------------------------------------------------------ products
\* the changes a ProductUpdate makes to the price and the VAT rate
ProductUpdates ==
    { [current_price |-> 6000, vat_rate |-> 19], [current_price |-> 5000, vat_rate |-> 7] }

\* UpdateProduct that also rewrites the items sold of the product
UpdateProduct_Propagate(p, u) ==
    /\ p \in DOMAIN products
    /\ products[p].active
    /\ products' = [products EXCEPT ![p].current_price = u.current_price,
                                    ![p].vat_rate = u.vat_rate]
    /\ invoice_items' =
          { IF it.product_id = p
            THEN [it EXCEPT !.unit_price = u.current_price,
                            !.line_total = u.current_price * it.quantity - it.discount_amount]
            ELSE it : it \in invoice_items }
    /\ response' = Resp("ok")
    /\ UNCHANGED <<client, ui>>
    /\ UNCHANGED <<now_year, invoice_sequences, invoices, next_item_id, tx, modal>>

\* PUT /api/v1/products/{id} with a ProductUpdate: the products row changes;
\* no trigger and no foreign key action reaches invoice_items
UpdateProduct(p, u) ==
    /\ p \in DOMAIN products
    /\ products[p].active
    /\ products' = [products EXCEPT ![p].current_price = u.current_price,
                                    ![p].vat_rate = u.vat_rate]
    /\ response' = Resp("ok")
    /\ UNCHANGED <<client, ui>>
    /\ UNCHANGED <<now_year, invoice_sequences, invoices, invoice_items, next_item_id, tx,
                   modal>>

\* DELETE /api/v1/products/{id}: soft delete, active = false
DeleteProduct(p) ==
    /\ p \in DOMAIN products
    /\ products[p].active
    /\ products' = [products EXCEPT ![p].active = FALSE]
    /\ response' = Resp("ok")
    /\ UNCHANGED <<client, ui>>
    /\ UNCHANGED <<now_year, invoice_sequences, invoices, invoice_items, next_item_id, tx,
                   modal>>

\* the items the form can put on an invoice: one of each active product, at
\* its price and VAT rate of the moment
CatalogItems ==
    { ItemOf(products, p, 1) : p \in { q \in DOMAIN products : products[q].active } }

\* ------------------------------------------------------------- queries
\* GET /api/v1/invoices without a status filter: deleted rows are left out
DefaultList ==
    { i \in DOMAIN invoices : invoices[i].status # "deleted" }

\* GET /api/v1/invoices/{id}
GetById(id) ==
    IF id \in DOMAIN invoices THEN {invoices[id]} ELSE {}

\* ------------------------------------------------- InvoiceSlider
\* err.message of a failed invoiceApi.getById
FetchError ==
    "Fehler beim Laden der Rechnung"

\* The useEffect of InvoiceSlider, run after a render with the provider's
\* state ui_next: the cleanup of the previous run sets its isMounted to false,
\* then fetchInvoice runs up to its await.
fetchInvoice(ui_next) ==
    LET cleaned == { [f EXCEPT !.isMounted = FALSE] : f \in slider.fetches }
    IN  IF ~ui_next.showDetails \/ ui_next.selectedInvoice = {}
        THEN [slider EXCEPT !.invoiceDetails = {}, !.fetches = cleaned]
        ELSE [slider EXCEPT !.loading = TRUE, !.error = Null,
                            !.fetches = cleaned \cup
                                { [id |-> inv.id, isMounted |-> TRUE] :
                                    inv \in ui_next.selectedInvoice }]

\* the effect runs when one of its dependencies [showDetails, selectedInvoice,
\* selectedInvoice?.id, selectedInvoice?.organization_id] changed
SliderAfter(ui_next) ==
    IF <<ui_next.showDetails, ui_next.selectedInvoice>>
         # <<invoiceUI.showDetails, invoiceUI.selectedInvoice>>
    THEN fetchInvoice(ui_next)
    ELSE slider

\* openCreateModal without setSelectedInvoice(null)
openCreateModal_KeepSelection ==
    /\ invoiceUI' = [invoiceUI EXCEPT !.showCreateModal = TRUE, !.showDetails = FALSE]
    /\ slider' = SliderAfter(invoiceUI')
    /\ UNCHANGED <<db, client, sliderRest>>

\* The callbacks of InvoiceUIProvider: each sets the provider's state; the
\* components render and the effect of the slider runs.
openCreateModal ==
    /\ invoiceUI' = [showCreateModal |-> TRUE, showDetails |-> FALSE,
                     selectedInvoice |-> {}]
    /\ slider' = SliderAfter(invoiceUI')
    /\ UNCHANGED <<db, client, sliderRest>>

closeCreateModal ==
    /\ invoiceUI' = [invoiceUI EXCEPT !.showCreateModal = FALSE]
    /\ slider' = SliderAfter(invoiceUI')
    /\ UNCHANGED <<db, client, sliderRest>>

\* openDetails without setShowCreateModal(false)
openDetails_KeepModal(id) ==
    /\ id \in DefaultList
    /\ invoiceUI' = [invoiceUI EXCEPT !.showDetails = TRUE,
                                      !.selectedInvoice = GetById(id)]
    /\ slider' = SliderAfter(invoiceUI')
    /\ UNCHANGED <<db, client, sliderRest>>

\* a click on a row of the invoice list
openDetails(id) ==
    /\ id \in DefaultList
    /\ invoiceUI' = [showCreateModal |-> FALSE, showDetails |-> TRUE,
                     selectedInvoice |-> GetById(id)]
    /\ slider' = SliderAfter(invoiceUI')
    /\ UNCHANGED <<db, client, sliderRest>>

closeDetails ==
    /\ invoiceUI' = [invoiceUI EXCEPT !.showDetails = FALSE, !.selectedInvoice = {}]
    /\ slider' = SliderAfter(invoiceUI')
    /\ UNCHANGED <<db, client, sliderRest>>

closeAll ==
    /\ invoiceUI' = [showCreateModal |-> FALSE, showDetails |-> FALSE,
                     selectedInvoice |-> {}]
    /\ slider' = SliderAfter(invoiceUI')
    /\ UNCHANGED <<db, client, sliderRest>>

\* the await of invoiceApi.getById ends: with the data (ok) or with an error;
\* the state is set only if the run's isMounted is still true
FetchDone(f, ok) ==
    /\ f \in slider.fetches
    /\ slider' =
          [slider EXCEPT
             !.fetches = @ \ {f},
             !.invoiceDetails = IF f.isMounted /\ ok THEN GetById(f.id) ELSE @,
             !.error = IF f.isMounted /\ ~ok THEN FetchError ELSE @,
             !.loading = IF f.isMounted THEN FALSE ELSE @]
    /\ UNCHANGED invoiceUI
    /\ UNCHANGED <<db, client, sliderRest>>

\* --------------------------------------------- CustomerInvoicesSection
\* result.error of a failed getCustomerInvoicesAction
LoadError ==
    "Fehler beim Laden der Rechnungen"

\* getCustomerInvoicesAction(customerId, organizationId): the invoices of the
\* customer as api.invoices.getAll answers them, or the catch branch
getCustomerInvoicesAction(customerId, organizationId, api_ok) ==
    IF api_ok
    THEN [success |-> TRUE, error |-> Null,
          invoices |-> { invoices[i] : i \in { n \in DefaultList :
                            /\ invoices[n].customer_id = customerId
                            /\ invoices[n].organization_id = organizationId } }]
    ELSE [success |-> FALSE, error |-> LoadError, invoices |-> {}]

\* The section is rendered for another customer: the cleanup of the previous
\* run of the effect sets its isCancelled, then loadInvoices runs up to its
\* await.
ShowCustomer(customerId) ==
    /\ customerId # section.customerId
    /\ section' = [section EXCEPT
                     !.customerId = customerId,
                     !.isLoading = TRUE,
                     !.error = Null,
                     !.loads = { [l EXCEPT !.isCancelled = TRUE] : l \in @ } \cup
                               { [customerId |-> customerId,
                                  organizationId |-> CustomerOrg(customerId),
                                  isCancelled |-> FALSE] }]
    /\ UNCHANGED <<db, client, sectionRest>>

\* LoadDone that applies the result whatever isCancelled says
LoadDone_Uncancelled(l, api_ok) ==
    /\ l \in section.loads
    /\ LET result == getCustomerInvoicesAction(l.customerId, l.organizationId, api_ok)
       IN section' =
            [section EXCEPT
                 !.loads = @ \ {l},
                 !.invoices = IF result.success THEN result.invoices ELSE @,
                 !.loadedFor = IF result.success THEN l.customerId ELSE @,
                 !.error = IF ~result.success THEN result.error ELSE @,
                 !.isLoading = FALSE]
    /\ UNCHANGED <<db, client, sectionRest>>

\* the await of getCustomerInvoicesAction ends; the result is applied unless
\* the run was cancelled.  loadedFor records whose result invoices holds.
LoadDone(l, api_ok) ==
    /\ l \in section.loads
    /\ LET result == getCustomerInvoicesAction(l.customerId, l.organizationId, api_ok)
       IN section' =
            [section EXCEPT
                 !.loads = @ \ {l},
                 !.invoices = IF ~l.isCancelled /\ result.success
                              THEN result.invoices ELSE @,
                 !.loadedFor = IF ~l.isCancelled /\ result.success
                               THEN l.customerId ELSE @,
                 !.error = IF ~l.isCancelled /\ ~result.success
                           THEN result.error ELSE @,
                 !.isLoading = IF ~l.isCancelled THEN FALSE ELSE @]
    /\ UNCHANGED <<db, client, sectionRest>>

\* ------------------------------------------------- CustomerUIProvider
CustomerUI_openCreateModal ==
    /\ customerUI' = [customerUI EXCEPT !.showCreateModal = TRUE, !.showSlider = FALSE]
    /\ UNCHANGED <<db, client, customerUIRest>>

CustomerUI_closeCreateModal ==
    /\ customerUI' = [customerUI EXCEPT !.showCreateModal = FALSE]
    /\ UNCHANGED <<db, client, customerUIRest>>

CustomerUI_openSlider(customer) ==
    /\ customerUI' = [showCreateModal |-> FALSE, showSlider |-> TRUE,
                      selectedCustomer |-> {customer}]
    /\ UNCHANGED <<db, client, customerUIRest>>

CustomerUI_closeSlider ==
    /\ customerUI' = [customerUI EXCEPT !.showSlider = FALSE, !.selectedCustomer = {}]
    /\ UNCHANGED <<db, client, customerUIRest>>

CustomerUI_closeAll ==
    /\ customerUI' = [showCreateModal |-> FALSE, showSlider |-> FALSE,
                      selectedCustomer |-> {}]
    /\ UNCHANGED <<db, client, customerUIRest>>

\* -------------------------------------------------- ProductUIProvider
ProductUI_openCreateModal ==
    /\ productUI' = [productUI EXCEPT !.showCreateModal = TRUE, !.showSlider = FALSE]
    /\ UNCHANGED <<db, client, productUIRest>>

ProductUI_closeCreateModal ==
    /\ productUI' = [productUI EXCEPT !.showCreateModal = FALSE]
    /\ UNCHANGED <<db, client, productUIRest>>

ProductUI_openSlider(product) ==
    /\ productUI' = [showCreateModal |-> FALSE, showSlider |-> TRUE,
                     selectedProduct |-> {product}]
    /\ UNCHANGED <<db, client, productUIRest>>

ProductUI_closeSlider ==
    /\ productUI' = [productUI EXCEPT !.showSlider = FALSE, !.selectedProduct = {}]
    /\ UNCHANGED <<db, client, productUIRest>>

ProductUI_closeAll ==
    /\ productUI' = [showCreateModal |-> FALSE, showSlider |-> FALSE,
                     selectedProduct |-> {}]
    /\ UNCHANGED <<db, client, productUIRest>>

\* ------------------------------------------------------- specifications
\* Numbering: concurrent createInvoice transactions of several organizations,
\* the creation modal and the year rollover.
Requests ==
    { Request(org, c, "draft", StandardItems) :
        org \in Orgs, c \in Customers \cup {MissingCustomer} }

Next ==
    \/ \E t \in Txs, invoice \in Requests : BeginCreate(t, invoice)
    \/ \E t \in Txs : SeqUpdate(t)
    \/ \E t \in Txs : SeqInsert(t)
    \/ \E t \in Txs : InsertInvoice(t)
    \/ \E t \in Txs : Commit(t)
    \/ \E t \in Txs : Abort(t)
    \/ \E org \in Orgs : ModalOpen(org)
    \/ ModalCancel
    \/ \E t \in Txs, invoice \in Requests : ModalSubmit(t, invoice)
    \/ YearRollover

Spec ==
    Init /\ [][Next]_vars

\* Lifecycle: the invoices of one organization, created one after the other,
\* with their status changes, edits and line-item changes.
LifecycleRequests ==
    { Request(1, c, s, items) :
        c \in Customers \cup {MissingCustomer}, s \in RequestStatuses, items \in ReqItems }

NextLifecycle ==
    \/ \E invoice \in LifecycleRequests : BeginCreate(1, invoice)
    \/ SeqUpdate(1)
    \/ SeqInsert(1)
    \/ InsertInvoice(1)
    \/ Commit(1)
    \/ Abort(1)
    \/ \E id \in DOMAIN invoices, new \in StatusValues : UpdateInvoiceStatus(id, new)
    \/ \E id \in DOMAIN invoices : DeleteInvoice(id)
    \/ \E id \in DOMAIN invoices, pm \in PaymentMethods : UpdateInvoice(id, pm)
    \/ \E id \in DOMAIN invoices, k \in ItemKinds : AddItem(id, k)
    \/ \E item \in invoice_items, k \in ItemKinds : UpdateItem(item, k)
    \/ \E item \in invoice_items : DeleteItem(item)
    \/ YearRollover

SpecLifecycle ==
    Init /\ [][NextLifecycle]_vars

\* Server action: createInvoiceAction on every form of Forms.
InitAction ==
    /\ InitDb
    /\ form \in Forms
    /\ action_state = NoState
    /\ api_calls = 0
    /\ revalidated = 0
    /\ InitUi

NextAction ==
    \/ \E api_ok \in BOOLEAN : createInvoiceAction(api_ok)
    \/ \E v \in CustomerFields : EditForm([form EXCEPT !.customer_id = v])
    \/ \E v \in SubtotalFields : EditForm([form EXCEPT !.subtotal = v])
    \/ \E v \in VatFields : EditForm([form EXCEPT !.vat_amount = v])
    \/ \E v \in TotalFields : EditForm([form EXCEPT !.total = v])
    \/ \E v \in SnapshotFields : EditForm([form EXCEPT !.prescription_snapshot = v])
    \/ \E v \in ItemsFields : EditForm([form EXCEPT !.items = v])

SpecAction ==
    InitAction /\ [][NextAction]_vars

\* Catalog: invoices with items of the catalog's products, next to changes
\* of the products' prices and VAT rates and their deletion.
NextCatalog ==
    \/ \E k \in CatalogItems : BeginCreate(1, Request(1, 1, "draft", <<k>>))
    \/ SeqUpdate(1)
    \/ SeqInsert(1)
    \/ InsertInvoice(1)
    \/ Commit(1)
    \/ \E id \in DOMAIN invoices, k \in CatalogItems : AddItem(id, k)
    \/ \E p \in Products, u \in ProductUpdates : UpdateProduct(p, u)
    \/ \E p \in Products : DeleteProduct(p)

SpecCatalog ==
    Init /\ [][NextCatalog]_vars

\* Format: get_next_invoice_number on counters of every width.  The counter
\* of (1, FirstYear) starts at one of CounterSamples (the invoices numbered
\* before are left out of the table).
CounterSamples ==
    {0, 41, 9998, 9999, 99999, 999998, 999999}

InitFormat ==
    /\ now_year = FirstYear
    /\ \E n \in CounterSamples :
          invoice_sequences = IF n = 0 THEN [k \in {} |-> 0]
                              ELSE [k \in {<<1, FirstYear>>} |-> n]
    /\ invoices = << >>
    /\ invoice_items = {}
    /\ next_item_id = 1
    /\ products = InitialCatalog
    /\ tx = [t \in Txs |-> IdleTx]
    /\ modal = NoModal
    /\ response = Resp("none")
    /\ form = EmptyForm
    /\ action_state = NoState
    /\ api_calls = 0
    /\ revalidated = 0
    /\ InitUi

NextFormat ==
    \/ \E t \in Txs : BeginCreate(t, Request(1, 1, "draft", StandardItems))
    \/ \E t \in Txs : SeqUpdate(t)
    \/ \E t \in Txs : SeqInsert(t)
    \/ \E t \in Txs : InsertInvoice(t)
    \/ \E t \in Txs : Commit(t)
    \/ \E t \in Txs : Abort(t)

SpecFormat ==
    InitFormat /\ [][NextFormat]_vars

\* Gateway: the form path (createInvoiceAction on a priced and on an empty
\* form) next to the creation of invoices and the changes of their line items.
GatewayRequests ==
    { Request(1, 1, "draft", items) : items \in ReqItems }

GatewayForms ==
    { [customer_id |-> Num(1), subtotal |-> Num(x), vat_amount |-> Num(0), total |-> Num(x),
       prescription_snapshot |-> "absent", items |-> i] :
        x \in {0, 100000}, i \in {"empty", "array"} }

NextGateway ==
    \/ \E api_ok \in BOOLEAN : createInvoiceAction(api_ok)
    \/ \E f \in GatewayForms : EditForm(f)
    \/ \E invoice \in GatewayRequests : BeginCreate(1, invoice)
    \/ SeqUpdate(1)
    \/ SeqInsert(1)
    \/ InsertInvoice(1)
    \/ Commit(1)
    \/ \E id \in DOMAIN invoices, k \in ItemKinds : AddItem(id, k)
    \/ \E item \in invoice_items : DeleteItem(item)

SpecGateway ==
    Init /\ [][NextGateway]_vars

\* Queue: concurrent createInvoice calls of the organizations, and the
\* creation modal, under the scheduling of the database.  A statement that waits for a row lock or for an index entry is
\* queued on it and is served once the holder has ended (strong fairness of
\* the three waiting statements); the handler goes on to COMMIT (weak
\* fairness).  Rollbacks, new calls and the modal are free.
Fairness ==
    \A t \in Txs :
        /\ SF_vars(SeqUpdate(t))
        /\ SF_vars(SeqInsert(t))
        /\ SF_vars(InsertInvoice(t))
        /\ WF_vars(Commit(t))

QueueRequests ==
    { Request(org, org, "draft", StandardItems) : org \in Orgs }

NextQueue ==
    \/ \E t \in Txs, invoice \in QueueRequests : BeginCreate(t, invoice)
    \/ \E t \in Txs : SeqUpdate(t)
    \/ \E t \in Txs : SeqInsert(t)
    \/ \E t \in Txs : InsertInvoice(t)
    \/ \E t \in Txs : Commit(t)
    \/ \E t \in Txs : Abort(t)
    \/ \E org \in Orgs : ModalOpen(org)
    \/ ModalCancel
    \/ \E t \in Txs, invoice \in QueueRequests : ModalSubmit(t, invoice)

SpecQueue ==
    Init /\ [][NextQueue]_vars /\ Fairness

\* Slider: the invoice page.  Invoices are created and paid, the list's rows
\* are opened in the slider, the creation modal is opened and closed, and the
\* fetches of the slider end.
NextSlider ==
    \/ BeginCreate(1, Request(1, 1, "draft", << >>))
    \/ SeqUpdate(1)
    \/ SeqInsert(1)
    \/ InsertInvoice(1)
    \/ Commit(1)
    \/ \E id \in DOMAIN invoices : UpdateInvoiceStatus(id, "paid")
    \/ openCreateModal
    \/ closeCreateModal
    \/ \E id \in DOMAIN invoices : openDetails(id)
    \/ closeDetails
    \/ closeAll
    \/ \E f \in slider.fetches, ok \in BOOLEAN : FetchDone(f, ok)

SpecSlider ==
    Init /\ [][NextSlider]_vars

\* Section: the customer panel.  Invoices of the customers are created, the
\* panel is shown for one customer after the other, and its loads end.
NextSection ==
    \/ \E c \in Customers : BeginCreate(1, Request(CustomerOrg(c), c, "draft", << >>))
    \/ SeqUpdate(1)
    \/ SeqInsert(1)
    \/ InsertInvoice(1)
    \/ Commit(1)
    \/ \E c \in Customers : ShowCustomer(c)
    \/ \E l \in section.loads, api_ok \in BOOLEAN : LoadDone(l, api_ok)

SpecSection ==
    Init /\ [][NextSection]_vars

\* Providers: the callbacks of the three UI providers in any order, on the
\* invoices, customers and products of the pages.
NextProviders ==
    \/ BeginCreate(1, Request(1, 1, "draft", << >>))
    \/ SeqUpdate(1)
    \/ SeqInsert(1)
    \/ InsertInvoice(1)
    \/ Commit(1)
    \/ openCreateModal
    \/ closeCreateModal
    \/ \E id \in DOMAIN invoices : openDetails(id)
    \/ closeDetails
    \/ closeAll
    \/ \E f \in slider.fetches, ok \in BOOLEAN : FetchDone(f, ok)
    \/ CustomerUI_openCreateModal
    \/ CustomerUI_closeCreateModal
    \/ \E c \in Customers : CustomerUI_openSlider(c)
    \/ CustomerUI_closeSlider
    \/ CustomerUI_closeAll
    \/ ProductUI_openCreateModal
    \/ ProductUI_closeCreateModal
    \/ \E p \in Products : ProductUI_openSlider(p)
    \/ ProductUI_closeSlider
    \/ ProductUI_closeAll

SpecProviders ==
    Init /\ [][NextProviders]_vars

\* ServerActions: the four server actions, the product actions on every
\* product form and createInvoiceAction on a valid form, on forms whose JSON
\* entries are malformed and on a form that fails the validation.
ValidForm ==
    [customer_id |-> Num(1), subtotal |-> Num(100000), vat_amount |-> Num(19000),
     total |-> Num(119000), prescription_snapshot |-> "absent", items |-> "array"]

ActionForms ==
    { ValidForm,
      [ValidForm EXCEPT !.prescription_snapshot = "malformed"],
      [ValidForm EXCEPT !.items = "malformed"],
      EmptyForm }

NextServerActions ==
    \/ \E api_ok \in BOOLEAN : createInvoiceAction(api_ok)
    \/ \E f \in ActionForms : EditForm(f)
    \/ \E api_ok \in BOOLEAN : createProductAction(api_ok)
    \/ \E api_ok \in BOOLEAN : updateProductAction(api_ok)
    \/ \E api_ok \in BOOLEAN : deleteProductAction(api_ok)
    \/ \E v \in ProductIdFields : EditProductForm([product_form EXCEPT !.product_id = v])
    \/ \E v \in NameFields : EditProductForm([product_form EXCEPT !.name = v])
    \/ \E v \in ProductTypeFields : EditProductForm([product_form EXCEPT !.product_type = v])
    \/ \E v \in PriceFields : EditProductForm([product_form EXCEPT !.current_price = v])
    \/ \E v \in VatRateFields : EditProductForm([product_form EXCEPT !.vat_rate = v])
    \/ \E v \in DetailsFields : EditProductForm([product_form EXCEPT !.details = v])

SpecServerActions ==
    Init /\ [][NextServerActions]_vars

\* ProductForm: the form opened for the products of the list, stored with
\* the VAT rates of the form's select, and for a new product; its price and
\* VAT entries are changed and it is submitted.
StoredVatRates ==
    {19, 7, 0}

InitProductForm ==
    /\ now_year = FirstYear
    /\ invoice_sequences = [k \in {} |-> 0]
    /\ invoices = << >>
    /\ invoice_items = {}
    /\ next_item_id = 1
    /\ \E r \in [Products -> StoredVatRates] :
          products = [p \in Products |-> [InitialCatalog[p] EXCEPT !.vat_rate = r[p]]]
    /\ tx = [t \in Txs |-> IdleTx]
    /\ modal = NoModal
    /\ response = Resp("none")
    /\ form = EmptyForm
    /\ action_state = NoState
    /\ api_calls = 0
    /\ revalidated = 0
    /\ InitUi

NextProductForm ==
    \/ \E p \in DOMAIN products : OpenProductForm(p)
    \/ OpenNewProductForm
    \/ \E v \in PriceFields : EditProductForm([product_form EXCEPT !.current_price = v])
    \/ \E v \in VatRateFields : EditProductForm([product_form EXCEPT !.vat_rate = v])
    \/ \E api_ok \in BOOLEAN : updateProductAction(api_ok)

SpecProductForm ==
    InitProductForm /\ [][NextProductForm]_vars

\* InvoiceForm: the form is filled in and submitted to createInvoiceAction.
InitInvoiceForm ==
    /\ InitDb
    /\ form = RenderedInvoiceForm
    /\ action_state = NoState
    /\ api_calls = 0
    /\ revalidated = 0
    /\ InitUi

NextInvoiceForm ==
    \/ \E c \in {Absent, Num(1)} : SelectCustomer(c)
    \/ \E value \in SubtotalInputs : setSubtotal(value)
    \/ \E value \in VatInputs : setVatAmount(value)
    \/ \E api_ok \in BOOLEAN : createInvoiceAction(api_ok)

SpecInvoiceForm ==
    InitInvoiceForm /\ [][NextInvoiceForm]_vars

\* Table: invoices are created, the page hands the table some of them, rows
\* and the select-all checkbox are toggled, and a click on a row (handleRowClick)
\* opens it in the slider.
NextTable ==
    \/ BeginCreate(1, Request(1, 1, "draft", << >>))
    \/ SeqUpdate(1)
    \/ SeqInsert(1)
    \/ InsertInvoice(1)
    \/ Commit(1)
    \/ \E rows \in SUBSET DOMAIN invoices : RefreshRows(rows)
    \/ handleSelectAll
    \/ \E id \in table.invoices : handleSelectRow(id)
    \/ \E id \in table.invoices : openDetails(id)
    \/ closeDetails
    \/ \E f \in slider.fetches, ok \in BOOLEAN : FetchDone(f, ok)

SpecTable ==
    Init /\ [][NextTable]_vars

\* ================================================================ claims

\* the numbers held by the persisted invoices of one (organization_id, year)
NumbersOf(k) ==
    { NumberValue(invoices[i].invoice_number) :
        i \in { j \in DOMAIN invoices : /\ invoices[j].organization_id = k[1]
                                        /\ NumberYear(invoices[j].invoice_number) = k[2] } }

\* C1: for any (organization_id, year), also when no counter row exists yet,
\* every concurrent caller of get_next_invoice_number succeeds, and the callers
\* hold pairwise distinct numbers that continue the committed counter without
\* a gap (each holder of the counter row has last_number + 1).
C1_ConcurrentAllocation ==
    /\ response.kind # "duplicate_sequence_key"
    /\ \A t \in Txs : HoldsRow(t, TxKey(t)) =>
          /\ NumberValue(tx[t].number) = LastNumber(TxKey(t)) + 1
          /\ \A u \in Txs \ {t} : HoldsRow(u, TxKey(u)) /\ tx[u].org = tx[t].org
                                     => tx[u].number # tx[t].number

\* C2: when a createInvoice transaction that has allocated a number ends
\* without committing, the committed counter, invoices and items are as before,
\* and the number the attempt held is the one the next allocation returns
\* (last_number + 1).
C2_RollbackRestoresCounter ==
    [][\A t \in Txs :
          (HoldsRow(t, TxKey(t)) /\ tx'[t].pc = "idle" /\ response'.kind # "committed")
          => /\ invoice_sequences' = invoice_sequences
             /\ invoices' = invoices
             /\ invoice_items' = invoice_items
             /\ NumberValue(tx[t].number) = LastNumber(TxKey(t)) + 1
      ]_vars

\* a transaction was rolled back holding a number, and a later transaction of
\* the same organization now holds that number
C2_Witness ==
    /\ response.kind = "rolled_back"
    /\ response.number # NoNumber
    /\ \E t \in Txs : /\ HoldsRow(t, TxKey(t))
                      /\ tx[t].org = response.org
                      /\ tx[t].number = response.number

\* C3: for each (organization_id, year), last_number never decreases and the
\* numbers held by the persisted invoices are exactly 1..last_number, whatever
\* modal opens, cancellations, creations, status changes and deletions happen.
C3_GaplessCounter ==
    [][\A k \in Keys :
          /\ LastNumber(k)' >= LastNumber(k)
          /\ NumbersOf(k)' = 1..(LastNumber(k)')
      ]_vars

\* C4: no operation changes the invoice_number of an existing invoice.
C4_NumberImmutable ==
    [][\A id \in DOMAIN invoices :
          /\ id \in DOMAIN invoices'
          /\ invoices'[id].invoice_number = invoices[id].invoice_number
      ]_vars

\* an invoice that was edited, had its items changed and was then deleted
C4_Witness ==
    \E id \in DOMAIN invoices :
        /\ invoices[id].status = "deleted"
        /\ invoices[id].payment_method # "none"
        /\ \E it \in ItemsOf(id) : it.id > 1

\* C5 as stated: every invoice has subtotal = sum of line_total, vat_amount =
\* sum of line_total x vat_rate and total = subtotal + vat_amount over its items.
C5_TotalsExact ==
    \A id \in DOMAIN invoices :
        /\ invoices[id].subtotal = SumLineTotal(ItemsOf(id))
        /\ 100 * invoices[id].vat_amount = SumVat(ItemsOf(id))
        /\ invoices[id].total = invoices[id].subtotal + invoices[id].vat_amount

\* C5 (amended): every invoice has subtotal = sum of line_total, vat_amount =
\* the sum of line_total x vat_rate rounded to the cent (at most half a cent
\* away from the exact sum) and total = subtotal + vat_amount over its items.
C5_TotalsRounded ==
    \A id \in DOMAIN invoices :
        /\ invoices[id].subtotal = SumLineTotal(ItemsOf(id))
        /\ Abs(100 * invoices[id].vat_amount - SumVat(ItemsOf(id))) <= 50
        /\ invoices[id].total = invoices[id].subtotal + invoices[id].vat_amount

\* an item was deleted, and an invoice has items whose VAT sum is no whole cent
C5_Witness ==
    /\ next_item_id - 1 > Cardinality(invoice_items)
    /\ \E id \in DOMAIN invoices :
          /\ ItemsOf(id) # {}
          /\ 100 * invoices[id].vat_amount # SumVat(ItemsOf(id))

C9_UniquePerOrganization ==
    /\ \A i, j \in DOMAIN invoices :
          (i # j /\ invoices[i].organization_id = invoices[j].organization_id)
          => invoices[i].invoice_number # invoices[j].invoice_number
    /\ response.kind = "duplicate_invoice_number"
          => \E i \in DOMAIN invoices :
                /\ invoices[i].organization_id = response.org
                /\ invoices[i].invoice_number = response.number

\* what the claim counts as a failed validation, in terms of the form
InvalidForm(f) ==
    \/ f.customer_id.kind # "num"
    \/ f.customer_id.v = 0
    \/ parseDecimal(f.subtotal) < 0
    \/ parseDecimal(f.vat_amount) < 0
    \/ parseDecimal(f.total) < 0
    \/ parseDecimal(f.total) = 0
    \/ Abs(toFixed2(parseDecimal(f.subtotal) + parseDecimal(f.vat_amount))
             - toFixed2(parseDecimal(f.total))) > 1

\* C10: createInvoiceAction calls api.invoices.create and revalidatePath only
\* when validateInvoiceData returns null; on a form that fails the validation
\* it returns success = false with the validation message and calls neither.
C10_ValidateBeforeWrite ==
    [][\A api_ok \in BOOLEAN :
          createInvoiceAction(api_ok)
          => /\ (api_calls' = 1 \/ revalidated' = 1)
                   => validateInvoiceData(extractInvoiceData(form)) = Null
             /\ InvalidForm(form)
                   => /\ api_calls' = 0
                      /\ revalidated' = 0
                      /\ action_state'.success = FALSE
                      /\ action_state'.error # Null
             /\ (~ExtractThrows(form) /\ validateInvoiceData(extractInvoiceData(form)) # Null)
                   => action_state'.error = validateInvoiceData(extractInvoiceData(form))
      ]_vars

\* the action has answered a form whose total is 0.02 off with the mismatch
\* message and without a call
C10_Witness ==
    /\ action_state.error =
          "Gesamtsumme muss Summe aus Zwischensumme und Mehrwertsteuer entsprechen."
    /\ api_calls = 0
    /\ form.total = Num(119020)
    /\ form.subtotal = Num(100000)
    /\ form.vat_amount = Num(19000)

\* the message of the comparison of the totals
MismatchMessage ==
    "Gesamtsumme muss Summe aus Zwischensumme und Mehrwertsteuer entsprechen."

\* the other validations of validateInvoiceData pass on the form
OtherwiseValid(f) ==
    /\ f.customer_id.kind = "num"
    /\ f.customer_id.v # 0
    /\ parseDecimal(f.subtotal) >= 0
    /\ parseDecimal(f.vat_amount) >= 0
    /\ parseDecimal(f.total) > 0
    /\ ~ExtractThrows(f)

\* C11 as stated: a request whose total differs from subtotal + vat_amount by
\* more than 0.01 is answered with an error and without a call of the API, and
\* a request whose total is subtotal + vat_amount rounded to 2 decimals is not
\* answered with the mismatch message.
C11_MismatchRejected ==
    [][\A api_ok \in BOOLEAN :
          createInvoiceAction(api_ok)
          => /\ Abs(parseDecimal(form.subtotal) + parseDecimal(form.vat_amount)
                      - parseDecimal(form.total)) > 10
                   => /\ api_calls' = 0
                      /\ action_state'.success = FALSE
             /\ parseDecimal(form.total)
                   = 10 * toFixed2(parseDecimal(form.subtotal) + parseDecimal(form.vat_amount))
                   => action_state'.error # MismatchMessage
      ]_vars

\* C11 (amended): a request whose total, rounded to 2 decimals, differs from
\* subtotal + vat_amount rounded to 2 decimals by more than 0.01 is answered
\* with an error and without a call of the API, with the mismatch message when
\* the other validations pass; a request whose total is subtotal + vat_amount
\* rounded to 2 decimals is not answered with the mismatch message.
C11_RoundedMismatchRejected ==
    [][\A api_ok \in BOOLEAN :
          createInvoiceAction(api_ok)
          => /\ Abs(toFixed2(parseDecimal(form.subtotal) + parseDecimal(form.vat_amount))
                      - toFixed2(parseDecimal(form.total))) > 1
                   => /\ api_calls' = 0
                      /\ revalidated' = 0
                      /\ action_state'.success = FALSE
                      /\ OtherwiseValid(form) => action_state'.error = MismatchMessage
             /\ parseDecimal(form.total)
                   = 10 * toFixed2(parseDecimal(form.subtotal) + parseDecimal(form.vat_amount))
                   => action_state'.error # MismatchMessage
      ]_vars

\* the action has sent a request whose total 0.014 is more than 0.01 away from
\* subtotal + vat_amount = 0 and one cent away after rounding
C11_Witness ==
    /\ api_calls = 1
    /\ form.subtotal = Num(0)
    /\ form.vat_amount = Num(0)
    /\ form.total = Num(14)

\* C12: a request whose item list is empty, or whose items payload is no JSON
\* or no array, is answered with an error and without a call of the API.
C12_EmptyItemsRejected ==
    [][\A api_ok \in BOOLEAN :
          (createInvoiceAction(api_ok) /\ extractInvoiceItems(form) = << >>)
          => /\ api_calls' = 0
             /\ action_state'.success = FALSE
      ]_vars

\* C13: a createInvoice request whose customer_id is no customer of its
\* organization_id (no such customer, or a customer of another organization)
\* is answered NotFound and changes no invoice, no item, no counter and no
\* transaction; every invoice's customer is a customer of its organization.
C13_CustomerNotFound ==
    [][/\ \A t \in Txs, invoice \in Requests :
             ( /\ BeginCreate(t, invoice) \/ ModalSubmit(t, invoice)
               /\ ~( /\ CustomerExists(invoice.customer_id)
                     /\ CustomerOrg(invoice.customer_id) = invoice.organization_id ) )
             => /\ response'.kind = "NotFound"
                /\ invoices' = invoices
                /\ invoice_items' = invoice_items
                /\ invoice_sequences' = invoice_sequences
                /\ tx' = tx
       /\ \A i \in DOMAIN invoices' :
             /\ CustomerExists(invoices'[i].customer_id)
             /\ CustomerOrg(invoices'[i].customer_id) = invoices'[i].organization_id
      ]_vars

\* a request naming a customer of another organization was answered NotFound
\* while the organization has a counter row and an invoice
C13_Witness ==
    /\ response.kind = "NotFound"
    /\ CustomerExists(response.customer)
    /\ CustomerOrg(response.customer) # response.org
    /\ <<response.org, now_year>> \in DOMAIN invoice_sequences
    /\ \E i \in DOMAIN invoices : invoices[i].organization_id = response.org

ZeroTotalMessage ==
    "Die Gesamtsumme darf nicht 0 sein."

\* a form of an invoice without items: a customer, no items, all amounts 0
EmptyInvoiceForm(f) ==
    /\ f.customer_id = Num(1)
    /\ extractInvoiceItems(f) = << >>
    /\ parseDecimal(f.subtotal) = 0
    /\ parseDecimal(f.vat_amount) = 0
    /\ parseDecimal(f.total) = 0
    /\ ~ExtractThrows(f)

\* every invoice without items has subtotal = vat_amount = total = 0, and
\* the deletion of an item of a live invoice is answered ok and keeps the
\* invoice row
EmptyInvoiceZero ==
    /\ \A id \in DOMAIN invoices' :
          { it \in invoice_items' : it.invoice_id = id } = {}
          => /\ invoices'[id].subtotal = 0
             /\ invoices'[id].vat_amount = 0
             /\ invoices'[id].total = 0
    /\ \A item \in invoice_items :
          (DeleteItem(item) /\ invoices[item.invoice_id].status # "deleted")
          => /\ response'.kind = "ok"
             /\ item \notin invoice_items'
             /\ DOMAIN invoices' = DOMAIN invoices

C17_SnapshotUnchanged ==
    [][/\ \A p \in Products :
             (DeleteProduct(p) \/ \E u \in ProductUpdates : UpdateProduct(p, u))
             => /\ invoice_items' = invoice_items
                /\ invoices' = invoices
       /\ \A it \in invoice_items' :
             /\ it.unit_price = it.product_snapshot.price
             /\ it.line_total = it.quantity * it.product_snapshot.price - it.discount_amount
       /\ \A id \in DOMAIN invoices' :
             LET rows == { it \in invoice_items' : it.invoice_id = id }
             IN /\ invoices'[id].subtotal = SumLineTotal(rows)
                /\ invoices'[id].vat_amount = Round2(SumVat(rows))
                /\ invoices'[id].total = invoices'[id].subtotal + invoices'[id].vat_amount
      ]_vars

\* an invoice holds an item of a product whose price and VAT rate have since
\* changed and which was then deleted
C17_Witness ==
    \E it \in invoice_items :
        /\ ~products[it.product_id].active
        /\ products[it.product_id].current_price # it.unit_price
        /\ products[it.product_id].vat_rate # it.vat_rate

\* C18: a step that changes the counter of one (organization_id, year) leaves
\* the counters of all other pairs unchanged and raises it by one, from 0
\* when the pair had no row (so each sequence starts at 1); the pair is that
\* of the allocating transaction or modal, and the number a transaction is
\* given is one more than the committed counter of its own pair.
C18_CountersIndependent ==
    [][/\ \A k \in Keys :
             LastNumber(k)' # LastNumber(k)
             => /\ LastNumber(k)' = LastNumber(k) + 1
                /\ \A k2 \in Keys \ {k} : LastNumber(k2)' = LastNumber(k2)
                /\ \/ \E t \in Txs : Commit(t) /\ k = <<tx[t].org, tx[t].year>>
                   \/ \E org \in Orgs : ModalOpen(org) /\ k = <<org, now_year>>
       /\ \A t \in Txs :
             (tx[t].pc \in {"update_seq", "insert_seq"} /\ tx'[t].pc = "insert_invoice")
             => /\ tx'[t].next_number = LastNumber(<<tx[t].org, tx[t].year>>) + 1
                /\ invoice_sequences' = invoice_sequences
      ]_vars

\* one organization holds invoice number 1 of two years, and another
\* organization's counter of the first year stands at 1 as well
C18_Witness ==
    /\ NumbersOf(<<1, FirstYear>>) = {1}
    /\ NumbersOf(<<1, FirstYear + 1>>) = {1}
    /\ LastNumber(<<1, FirstYear>>) = 1
    /\ LastNumber(<<1, FirstYear + 1>>) = 1
    /\ LastNumber(<<2, FirstYear>>) = 1

\* C19: the number get_next_invoice_number returns is "{year}-{digits}" with
\* at least 4 digits, and the digits read back as the counter value they were
\* made from: the string is never cut, so it is the string of no other
\* counter value of the year.
C19_FormatWidens ==
    \A t \in Txs :
        (tx[t].pc \in {"insert_invoice", "commit"} /\ tx[t].how \in {"update", "insert"})
        => /\ NumberYear(tx[t].number) = tx[t].year
           /\ Len(tx[t].number[2]) >= 4
           /\ FromDigits(tx[t].number[2]) = tx[t].next_number

WaitsForRow(t) ==
    /\ tx[t].pc = "update_seq"
    /\ TxKey(t) \in DOMAIN invoice_sequences
    /\ RowBusy(TxKey(t), t)

\* some call in flight can take its next step
SomeCallCanStep ==
    \E t \in InFlight :
        ENABLED (SeqUpdate(t) \/ SeqInsert(t) \/ InsertInvoice(t) \/ Commit(t))

\* C21: under the fair scheduling of the database every createInvoice call
\* that waits for the row lock of its (organization_id, year) counter
\* eventually holds the row or has ended, every call in flight eventually
\* ends (committed or rolled back), and whenever calls are in flight, of the
\* same or of different organizations, one of them can take its next step.
C21_BlockedCallFinishes ==
    /\ \A t \in Txs : WaitsForRow(t) ~> (HoldsRow(t, TxKey(t)) \/ tx[t].pc = "idle")
    /\ \A t \in Txs : (tx[t].pc # "idle") ~> (tx[t].pc = "idle")
    /\ [](InFlight # {} => SomeCallCanStep)

\* a call waits for the row lock of a counter another call holds
C21_Witness ==
    \E t \in Txs : WaitsForRow(t)

\* ---------------------------------------------------------------------- C22
\* C22: whenever the slider is shown for a selected invoice and
\* invoiceDetails is non-null, invoiceDetails is the data of the selected
\* invoice.
C22_DetailsOfSelected ==
    (invoiceUI.showDetails /\ invoiceUI.selectedInvoice # {}) =>
        \A d \in slider.invoiceDetails :
            \A inv \in invoiceUI.selectedInvoice : d.id = inv.id

\* ---------------------------------------------------------------------- C23
\* C23: loading is true only while a fetch for the currently selected
\* invoice is in flight.
C23_LoadingOnlyInFlight ==
    slider.loading =>
        \E f \in slider.fetches :
            \E inv \in invoiceUI.selectedInvoice : f.id = inv.id

C25_ModalExcludesSlider ==
    /\ ~(invoiceUI.showCreateModal /\ invoiceUI.showDetails)
    /\ ~(customerUI.showCreateModal /\ customerUI.showSlider)
    /\ ~(productUI.showCreateModal /\ productUI.showSlider)

\* every provider shows its create modal, opened while its slider was open:
\* the slider of the invoice page has left its fetch behind, the other two
\* providers their selection
C25_Witness ==
    /\ invoiceUI.showCreateModal /\ slider.fetches # {}
    /\ customerUI.showCreateModal /\ customerUI.selectedCustomer # {}
    /\ productUI.showCreateModal /\ productUI.selectedProduct # {}

\* ---------------------------------------------------------------------- C26
\* C26: in InvoiceUIProvider selectedInvoice is non-null exactly when
\* showDetails is true.
C26_SelectedIffDetails ==
    (invoiceUI.selectedInvoice # {}) <=> invoiceUI.showDetails

\* the create modal was opened over the open slider, whose fetch is still in
\* flight, and the selection is gone
C26_Witness ==
    /\ invoiceUI.showCreateModal
    /\ invoiceUI.selectedInvoice = {}
    /\ slider.fetches # {}

\* ---------------------------------------------------------------------- C27
\* what a server action has answered: an ActionState (no exception has left
\* it), with success = false and an error message when the extraction or the
\* validation failed or the API call it made failed, and with revalidatePath
\* called only after an API call that succeeded
ActionAnswered(failed, api_ok) ==
    /\ action_state'.message # "thrown"
    /\ (failed \/ (api_calls' = 1 /\ ~api_ok))
          => /\ action_state'.success = FALSE
             /\ action_state'.error # Null
    /\ action_state'.success = FALSE => action_state'.error # Null
    /\ failed => api_calls' = 0
    /\ revalidated' = 1 => (api_calls' = 1 /\ api_ok /\ action_state'.success)

\* C27: createInvoiceAction, createProductAction, updateProductAction and
\* deleteProductAction never throw: on every form (malformed JSON entries
\* included) and every outcome of the API they return an ActionState, with
\* success = false and an error message when extraction, validation or the
\* API call fails, and they call revalidatePath only after the API call
\* succeeded.
C27_ActionsNeverThrow ==
    [][\A api_ok \in BOOLEAN :
          /\ createInvoiceAction(api_ok)
                => ActionAnswered(\/ ExtractThrows(form)
                                  \/ validateInvoiceData(extractInvoiceData(form)) # Null,
                                  api_ok)
          /\ createProductAction(api_ok)
                => ActionAnswered(\/ ProductExtractThrows(product_form)
                                  \/ ValidateProductData(extractProductData(product_form)) # Null,
                                  api_ok)
          /\ updateProductAction(api_ok)
                => ActionAnswered(\/ product_form.product_id.kind = "absent"
                                  \/ ProductExtractThrows(product_form)
                                  \/ ValidateProductData(extractProductData(product_form)) # Null,
                                  api_ok)
          /\ deleteProductAction(api_ok)
                => ActionAnswered(product_form.product_id.kind = "absent", api_ok)
      ]_vars

\* a product action has answered a form that is complete but for a malformed
\* JSON entry with the error of the parser and without a call, after
\* createInvoiceAction had created an invoice
C27_Witness ==
    /\ product_form.details = "malformed"
    /\ product_form.product_id.kind = "num"
    /\ ValidateProductData(extractProductData(product_form)) = Null
    /\ action_state.success = FALSE
    /\ action_state.error = "SyntaxError"
    /\ api_calls = 0
    /\ revalidated = 0
    /\ product_call = NoCall
    /\ form = ValidForm

\* ---------------------------------------------------------------------- C28
MismatchError ==
    "Gesamtsumme muss Summe aus Zwischensumme und Mehrwertsteuer entsprechen."

\* C28: whatever is entered as subtotal and vat_amount in InvoiceForm (empty
\* and non-numeric input included), the total the form submits passes the
\* comparison of validateInvoiceData with subtotal + vat_amount, and no
\* submission of the form is answered with the error of a total mismatch.
C28_FormTotalAccepted ==
    LET invoice == extractInvoiceData(form) IN
    /\ ~TotalMismatch(toFixed2(invoice.subtotal + invoice.vat_amount),
                      toFixed2(invoice.total))
    /\ validateInvoiceData(invoice) # MismatchError
    /\ action_state.error # MismatchError

\* a form whose amounts carry tenths of a cent and add up across a cent has
\* been submitted for a customer and accepted
C28_Witness ==
    /\ form.customer_id = Num(1)
    /\ form.subtotal = Num(99994)
    /\ form.vat_amount = Num(4)
    /\ form.total = Num(100000)
    /\ action_state.success
    /\ api_calls = 1

\* ---------------------------------------------------------------------- C29
\* the form is as ProductForm renders it for product p but for its price
\* entry: the VAT selection has not been touched
VatUntouched(p) ==
    /\ p \in DOMAIN products
    /\ product_form.product_id = Num(p)
    /\ product_form.vat_rate = ProductForm(p).vat_rate

\* C29: saving a product through ProductForm without touching the VAT
\* selection sends, in updateProductAction's call, the vat_rate that is
\* stored for the product (for the stored rates 0.19, 0.07 and 0).
C29_VatRateRoundTrip ==
    [][\A api_ok \in BOOLEAN, p \in Products :
          (VatUntouched(p) /\ updateProductAction(api_ok) /\ api_calls' = 1)
             => product_call'.data.vat_rate = products[p].vat_rate
      ]_vars

\* ---------------------------------------------------------------------- C30
\* C30: after any row toggles, select-all toggles and changes of the
\* displayed rows, the select-all checkbox of InvoicesTable is checked exactly
\* when there is a displayed row and every displayed row is selected.
C30_SelectAllIffAllSelected ==
    SelectAllChecked <=> /\ table.invoices # {}
                         /\ table.invoices \subseteq table.selectedRows
====
